---- MODULE Spec2Model ----
(***************************************************************************)
(* Model of src/student/main.py: the /handle_task webhook, the round       *)
(* handlers, the retry loop of generate_code_with_llm and the file loop of *)
(* push_files_to_repo.  One behaviour is one invocation of one entry       *)
(* point: the webhook (which runs round1 and the generation loop inline)   *)
(* or push_files_to_repo.                                                  *)
(***************************************************************************)
EXTENDS Integers, Sequences, FiniteSets, TLC

VARIABLES
    entry,               \* the function this behaviour invokes
    env_secret,          \* os.getenv("secret"): a str or None
    data,                \* the JSON body of the request (a dict)
    pc,                  \* position of the single thread of control
    response,            \* what the HTTP caller of handle_task receives
    effects,             \* calls made so far to handlers and collaborators
    attempt,             \* loop variable of generate_code_with_llm
    delay,               \* local `delay` of the current iteration
    last_error_message,  \* local `last_error_message`
    calls,               \* client.models.generate_content calls made
    failed,              \* attempts that ended in an except branch
    sleeps,              \* the arguments of the time.sleep calls, in order
    resp,                \* outcome of the latest backend call
    files,               \* local `files` (the value returned on success)
    license_appends,     \* executions of files.append(LICENSE) (line 277)
    gen_state,           \* "ATTEMPTING", "SUCCEEDED" or "EXHAUSTED"
    push_files,          \* argument `files` of push_files_to_repo
    push_round,          \* argument `round` of push_files_to_repo
    latest_sha,          \* local `latest_sha`
    idx,                 \* index of the next entry of the for loop
    puts,                \* the requests.put calls issued, in order
    push_state,          \* "none", "running", "returned" or "raised"
    evaluation_url,      \* local `evaluation_url` of notify_evaluation_server
    http_log,            \* requests made by create_github_repo,
                         \* enable_github_pages and notify_evaluation_server
    collab_state,        \* how that call ended: "none", "running",
                         \* "returned" or "raised"
    frames,              \* two concurrent invocations of
                         \* generate_code_with_llm: the locals attempt,
                         \* delay, last_error_message of each call frame
    inv_pc,              \* position of each of the two invocations
    inv_obs,             \* what each invocation did: backend calls, sleeps,
                         \* outcome and the message it raised
    delivered            \* the backend outcomes delivered to each invocation

vars == <<entry, env_secret, data, pc, response, effects, attempt, delay,
          last_error_message, calls, failed, sleeps, resp, files,
          license_appends, gen_state, push_files, push_round, latest_sha,
          idx, puts, push_state, evaluation_url, http_log, collab_state,
          frames, inv_pc, inv_obs, delivered>>

genVars == <<attempt, delay, last_error_message, calls, failed, sleeps,
             resp, files, license_appends, gen_state>>

pushVars == <<push_files, push_round, latest_sha, idx, puts, push_state>>

collabVars == <<evaluation_url, http_log, collab_state>>

concVars == <<frames, inv_pc, inv_obs, delivered>>

(***************************************************************************)
(* Bounds and program constants.                                           *)
(***************************************************************************)
MaxFiles == 2           \* longest file list the backend or a caller supplies

MAX_RETRIES == 5
INITIAL_DELAY == 4
MIT_LICENSE_TEXT == "MIT License ... Copyright (c) [YEAR] [FULL NAME] ..."

(***************************************************************************)
(* Python values that reach a comparison or a truth test.                  *)
(***************************************************************************)
PyNone == [t |-> "none", n |-> 0, s |-> ""]
PyInt(i) == [t |-> "int", n |-> i, s |-> ""]
PyBool(b) == [t |-> "bool", n |-> IF b THEN 1 ELSE 0, s |-> ""]
PyStr(x) == [t |-> "str", n |-> 0, s |-> x]
PyBytes(x) == [t |-> "bytes", n |-> 0, s |-> x]
Missing == [t |-> "missing", n |-> 0, s |-> ""]   \* key absent from a dict

\* Python's ==: bool is a subclass of int, so True == 1 and False == 0;
\* values of unrelated types are unequal.
PyEq(a, b) ==
    IF a.t \in {"int", "bool"} /\ b.t \in {"int", "bool"} THEN a.n = b.n
    ELSE IF a.t = "str" /\ b.t = "str" THEN a.s = b.s
    ELSE IF a.t = "bytes" /\ b.t = "bytes" THEN a.s = b.s
    ELSE a.t = "none" /\ b.t = "none"

\* dict.get(key, default)
DictGet(d, key, default) == IF d[key] = Missing THEN default ELSE d[key]

(***************************************************************************)
(* Inputs.                                                                 *)
(***************************************************************************)
SecretInputs == {Missing, PyNone, PyStr("sirjan255"), PyStr("wrong")}
RoundInputs == {Missing, PyNone, PyInt(1), PyInt(2), PyInt(3),
                PyBool(TRUE), PyStr("1")}
EnvSecrets == {PyNone, PyStr("sirjan255")}
Requests == [secret : SecretInputs, round : RoundInputs]
NoRequest == [secret |-> Missing, round |-> Missing]

\* CodeFile: name and content are str, with no length constraint.
CodeFile == [name : {"", "index.html", "LICENSE"},
             content : {"", "<html>", MIT_LICENSE_TEXT}]
SeqUpTo(S, n) == UNION {[1..k -> S] : k \in 0..n}
GeneratedCode == SeqUpTo(CodeFile, MaxFiles)

LicenseFile == [name |-> "LICENSE", content |-> MIT_LICENSE_TEXT]

\* Outcomes of one client.models.generate_content call.  `parsed` says
\* whether response.parsed is a GeneratedCode (else it is None), `text`
\* whether response.text is a str (else it is None).
NoResp == [kind |-> "none", parsed |-> FALSE, files |-> <<>>, text |-> FALSE]
ParsedResponses == {[kind |-> "response", parsed |-> TRUE, files |-> fs,
                     text |-> TRUE] : fs \in GeneratedCode}
UnparsedResponses == {[kind |-> "response", parsed |-> FALSE, files |-> <<>>,
                       text |-> tx] : tx \in BOOLEAN}
APIErrorOutcome == [kind |-> "APIError", parsed |-> FALSE, files |-> <<>>,
                    text |-> FALSE]
ExceptionOutcome == [kind |-> "Exception", parsed |-> FALSE, files |-> <<>>,
                     text |-> FALSE]

(***************************************************************************)
(* Helpers of generate_code_with_llm.                                      *)
(***************************************************************************)
\* delay = INITIAL_DELAY * (2 ** attempt)
Delay_linear(n) == INITIAL_DELAY * (n + 1)
Delay_constant(n) == INITIAL_DELAY
Delay(n) == INITIAL_DELAY * 2^n

\* for attempt in range(MAX_RETRIES): is there an iteration after n?
LoopHasNext_inclusive(n) == n + 1 <= MAX_RETRIES
LoopHasNext(n) == n + 1 < MAX_RETRIES

\* if attempt < MAX_RETRIES - 1: time.sleep(delay) else: break
FaultSleeps(n) == n < MAX_RETRIES - 1

\* The inner try: response.parsed.files must exist; model_dump of each
\* CodeFile is a dict, so the isinstance test of line 266 always passes.
ParsesToSchema_nonempty(r) ==
    /\ r.kind = "response"
    /\ r.parsed
    /\ r.files # <<>>
    /\ \A i \in 1..Len(r.files) :
          r.files[i].name # "" /\ r.files[i].content # ""
ParsesToSchema(r) == r.kind = "response" /\ r.parsed

\* files.append({"name": "LICENSE", "content": MIT_LICENSE_TEXT})
InjectLicense_dedup(fs) ==
    IF \E i \in 1..Len(fs) : fs[i].name = "LICENSE" THEN fs
    ELSE Append(fs, LicenseFile)
InjectLicense(fs) == Append(fs, LicenseFile)

\* Two invocations running at once (FastAPI runs a `def` endpoint in a
\* thread pool).  attempt, delay and last_error_message are locals of the
\* function, so invocation i works on its own call frame.
Invocations == {1, 2}
Frame_shared(i) == 1
Frame(i) == i

NewFrame == [attempt |-> 0, delay |-> 0, last_error_message |-> ""]
NewObs == [calls |-> 0, sleeps |-> <<>>, outcome |-> "none", error |-> ""]

(***************************************************************************)
(* Helpers of push_files_to_repo.                                          *)
(***************************************************************************)
\* A file entry handed to push_files_to_repo: content is a str or bytes.
PushFile == [name : {"", "index.html"},
             content : {PyStr(""), PyStr("<html>"),
                        PyBytes(""), PyBytes("<html>")}]
PushFileLists == SeqUpTo(PushFile, MaxFiles)

\* base64.b64encode(...).decode('utf-8'): empty input gives the empty
\* string, any other input a non-empty string that differs from the input.
B64(x) == IF x = "" THEN "" ELSE "base64(" \o x \o ")"

\* lines 151-155: bytes are encoded as they are, a str is first encoded to
\* UTF-8 bytes (the same characters for the ASCII payloads used here).
EncodeContent(c) == IF c.t = "bytes" THEN B64(c.s) ELSE B64(c.s)

\* if not file_name or not file_content: continue
SkipEntry_both(file_name, file_content) == file_name = "" /\ file_content = ""
SkipEntry(file_name, file_content) == file_name = "" \/ file_content = ""

\* payload of one PUT: "sha" is added only when latest_sha is truthy
PutPayload(i, f, sha, status) ==
    [index |-> i, name |-> f.name, content |-> EncodeContent(f.content),
     sha |-> IF sha.t = "str" /\ sha.s # "" THEN sha.s ELSE "",
     status |-> status]

\* statuses a PUT to the contents API is modelled to answer with
PutStatuses == {200, 201, 409, 422}

\* if response.status_code != 201: raise (lines 103, 126, 170)
IsCreated_any2xx(status) == status \in 200..299
IsCreated(status) == status = 201
\* values response.json().get("sha") can have
ShaValues == {PyNone, PyStr("abc123")}

(***************************************************************************)
(* Helpers of create_github_repo, enable_github_pages and                  *)
(* notify_evaluation_server.                                               *)
(***************************************************************************)
\* data.get("evaluation_url"): absent (None), empty or a URL
UrlInputs == {PyNone, PyStr(""), PyStr("https://example.com/notify")}

\* if not evaluation_url
Falsy(v) == v.t = "none" \/ (v.t = "str" /\ v.s = "")

\* status codes the GitHub API and the evaluation server are modelled to
\* answer with
PostStatuses == {200, 201, 404, 422}
GetStatuses == {200, 404}

\* one HTTP request: the function that made it, the method, the status
Request(fn, method, status) ==
    [call |-> fn, method |-> method, status |-> status]

(***************************************************************************)
(* handle_task, validate_secret, round1, round2.                           *)
(***************************************************************************)
validate_secret_unset_open(secret) ==
    PyEq(secret, env_secret) \/ env_secret = PyNone
validate_secret(secret) == PyEq(secret, env_secret)

ErrInvalidSecret == "{error: Invalid secret}"
ErrInvalidRound == "{error: Invalid round}"
MsgRound1 == "{message: Round 1 started}"
MsgRound2 == "{message: Round 2 started}"
UnhandledException == "unhandled exception (HTTP 500)"

TypeOK ==
    /\ entry \in {"handle_task", "push_files_to_repo", "create_github_repo",
                  "enable_github_pages", "notify_evaluation_server",
                  "two_invocations"}
    /\ inv_pc \in [Invocations -> {"idle", "attempt", "sleeping", "raise",
                                    "returned", "raised"}]
    /\ env_secret \in EnvSecrets
    /\ data \in Requests \cup {NoRequest}
    /\ pc \in {"handle_task", "attempt", "sleeping", "raise", "round1_print",
               "push_files_to_repo", "push_loop", "create_github_repo",
               "enable_github_pages", "notify_evaluation_server",
               "notify_post", "two_invocations", "done"}
    /\ response \in {"none", ErrInvalidSecret, ErrInvalidRound, MsgRound1,
                     MsgRound2, UnhandledException}
    /\ attempt \in 0..MAX_RETRIES
    /\ calls \in 0..(MAX_RETRIES + 1)
    /\ gen_state \in {"none", "ATTEMPTING", "SUCCEEDED", "EXHAUSTED"}

InitGen ==
    /\ attempt = 0
    /\ delay = 0
    /\ last_error_message = ""
    /\ calls = 0
    /\ failed = 0
    /\ sleeps = <<>>
    /\ resp = NoResp
    /\ files = <<>>
    /\ license_appends = 0
    /\ gen_state = "none"

Init ==
    /\ entry \in {"handle_task", "push_files_to_repo", "create_github_repo",
                  "enable_github_pages", "notify_evaluation_server",
                  "two_invocations"}
    /\ pc = entry
    /\ frames = [f \in Invocations |-> NewFrame]
    /\ inv_pc = [i \in Invocations |->
                   IF entry = "two_invocations" THEN "attempt" ELSE "idle"]
    /\ inv_obs = [i \in Invocations |-> NewObs]
    /\ delivered = [i \in Invocations |-> <<>>]
    /\ response = "none"
    /\ effects = <<>>
    /\ InitGen
    /\ latest_sha = PyNone
    /\ idx = 1
    /\ puts = <<>>
    /\ push_state = "none"
    /\ http_log = <<>>
    /\ collab_state = "none"
    /\ env_secret \in (IF entry = "handle_task" THEN EnvSecrets ELSE {PyNone})
    /\ data \in (IF entry = "handle_task" THEN Requests ELSE {NoRequest})
    /\ push_files \in (IF entry = "push_files_to_repo" THEN PushFileLists
                       ELSE {<<>>})
    /\ push_round \in (IF entry = "push_files_to_repo"
                       THEN {PyInt(1), PyInt(2)} ELSE {PyInt(1)})
    /\ evaluation_url \in (IF entry = "notify_evaluation_server"
                           THEN UrlInputs ELSE {PyNone})

\* if not validate_secret(data.get("secret", "")): return {"error": ...}
RejectSecret ==
    /\ pc = "handle_task"
    /\ ~validate_secret(DictGet(data, "secret", PyStr("")))
    /\ response' = ErrInvalidSecret
    /\ pc' = "done"
    /\ UNCHANGED <<collabVars, concVars, entry, env_secret, data, effects, genVars, pushVars>>

\* data.get("round") == 1: round1(data), which calls generate_code_with_llm
DispatchRound1 ==
    /\ pc = "handle_task"
    /\ validate_secret(DictGet(data, "secret", PyStr("")))
    /\ PyEq(DictGet(data, "round", PyNone), PyInt(1))
    /\ effects' = Append(effects, "round1")
    /\ gen_state' = "ATTEMPTING"
    /\ pc' = "attempt"
    /\ UNCHANGED <<collabVars, concVars, entry, env_secret, data, response, attempt, delay,
                   last_error_message, calls, failed, sleeps, resp, files,
                   license_appends, pushVars>>

\* data.get("round") == 2: round2(data) is `pass`; return the message
DispatchRound2 ==
    /\ pc = "handle_task"
    /\ validate_secret(DictGet(data, "secret", PyStr("")))
    /\ ~PyEq(DictGet(data, "round", PyNone), PyInt(1))
    /\ PyEq(DictGet(data, "round", PyNone), PyInt(2))
    /\ effects' = Append(effects, "round2")
    /\ response' = MsgRound2
    /\ pc' = "done"
    /\ UNCHANGED <<collabVars, concVars, entry, env_secret, data, genVars, pushVars>>

\* else: return {"error": "Invalid round"}
RejectRound ==
    /\ pc = "handle_task"
    /\ validate_secret(DictGet(data, "secret", PyStr("")))
    /\ ~PyEq(DictGet(data, "round", PyNone), PyInt(1))
    /\ ~PyEq(DictGet(data, "round", PyNone), PyInt(2))
    /\ response' = ErrInvalidRound
    /\ pc' = "done"
    /\ UNCHANGED <<collabVars, concVars, entry, env_secret, data, effects, genVars, pushVars>>

(***************************************************************************)
(* generate_code_with_llm: one action per way an iteration can end.        *)
(***************************************************************************)
\* The call returns and response.parsed.files converts: append the license
\* and return the list to round1.
AttemptSucceeds ==
    /\ pc = "attempt"
    /\ \E r \in ParsedResponses \cup UnparsedResponses :
          /\ ParsesToSchema(r)
          /\ resp' = r
          /\ files' = InjectLicense(r.files)
    /\ delay' = Delay(attempt)
    /\ calls' = calls + 1
    /\ effects' = Append(effects, "generate_content")
    /\ license_appends' = license_appends + 1
    /\ gen_state' = "SUCCEEDED"
    /\ pc' = "round1_print"
    /\ UNCHANGED <<collabVars, concVars, entry, env_secret, data, response, attempt,
                   last_error_message, failed, sleeps, pushVars>>

\* The call returns but the inner try raises (response.parsed is None) and
\* response.text is a str: record the message, time.sleep(delay), continue.
AttemptInvalid ==
    /\ pc = "attempt"
    /\ \E r \in ParsedResponses \cup UnparsedResponses :
          /\ ~ParsesToSchema(r)
          /\ r.text
          /\ resp' = r
    /\ delay' = Delay(attempt)
    /\ calls' = calls + 1
    /\ effects' = Append(effects, "generate_content")
    /\ failed' = failed + 1
    /\ last_error_message' = "Invalid JSON/Schema from LLM"
    /\ sleeps' = Append(sleeps, Delay(attempt))
    /\ pc' = "sleeping"
    /\ UNCHANGED <<collabVars, concVars, entry, env_secret, data, response, attempt, files,
                   license_appends, gen_state, pushVars>>

\* except APIError
AttemptAPIError ==
    /\ pc = "attempt"
    /\ resp' = APIErrorOutcome
    /\ delay' = Delay(attempt)
    /\ calls' = calls + 1
    /\ effects' = Append(effects, "generate_content")
    /\ failed' = failed + 1
    /\ last_error_message' = "Gemini API Error"
    /\ IF FaultSleeps(attempt)
         THEN sleeps' = Append(sleeps, Delay(attempt)) /\ pc' = "sleeping"
         ELSE sleeps' = sleeps /\ pc' = "raise"
    /\ UNCHANGED <<collabVars, concVars, entry, env_secret, data, response, attempt, files,
                   license_appends, gen_state, pushVars>>

\* except Exception: the call itself raised something else, or the inner
\* handler raised while slicing response.text, which is None (line 271).
AttemptGeneralError ==
    /\ pc = "attempt"
    /\ \E r \in {ExceptionOutcome} \cup UnparsedResponses :
          /\ r.kind = "response" => (~ParsesToSchema(r) /\ ~r.text)
          /\ resp' = r
    /\ delay' = Delay(attempt)
    /\ calls' = calls + 1
    /\ effects' = Append(effects, "generate_content")
    /\ failed' = failed + 1
    /\ last_error_message' = "Network or General Error"
    /\ IF FaultSleeps(attempt)
         THEN sleeps' = Append(sleeps, Delay(attempt)) /\ pc' = "sleeping"
         ELSE sleeps' = sleeps /\ pc' = "raise"
    /\ UNCHANGED <<collabVars, concVars, entry, env_secret, data, response, attempt, files,
                   license_appends, gen_state, pushVars>>

\* time.sleep returns: the for loop takes its next value or runs out.
SleepEnds_never == pc = "sleeping" /\ UNCHANGED vars
SleepEnds ==
    /\ pc = "sleeping"
    /\ IF LoopHasNext(attempt)
         THEN attempt' = attempt + 1 /\ pc' = "attempt"
         ELSE attempt' = attempt /\ pc' = "raise"
    /\ UNCHANGED <<collabVars, concVars, entry, env_secret, data, response, effects, delay,
                   last_error_message, calls, failed, sleeps, resp, files,
                   license_appends, gen_state, pushVars>>

\* raise Exception("Failed to generate code after ..."): nothing in round1
\* or handle_task catches it, so the request ends in an unhandled exception.
RaiseExhausted ==
    /\ pc = "raise"
    /\ gen_state' = "EXHAUSTED"
    /\ response' = UnhandledException
    /\ pc' = "done"
    /\ UNCHANGED <<collabVars, concVars, entry, env_secret, data, effects, attempt, delay,
                   last_error_message, calls, failed, sleeps, resp, files,
                   license_appends, pushVars>>

\* round1 prints each generated file and returns; the repository calls are
\* commented out (lines 333-336).  handle_task returns its message.
Round1Returns ==
    /\ pc = "round1_print"
    /\ response' = MsgRound1
    /\ pc' = "done"
    /\ UNCHANGED <<collabVars, concVars, entry, env_secret, data, effects, genVars, pushVars>>

(***************************************************************************)
(* push_files_to_repo.                                                     *)
(***************************************************************************)
\* round != 2: latest_sha = None, no request is made before the loop
PushBegins ==
    /\ pc = "push_files_to_repo"
    /\ ~PyEq(push_round, PyInt(2))
    /\ latest_sha' = PyNone
    /\ push_state' = "running"
    /\ pc' = "push_loop"
    /\ UNCHANGED <<collabVars, concVars, entry, env_secret, data, response, effects, genVars,
                   push_files, push_round, idx, puts>>

\* round == 2: get_sha_of_latest_commit answers 200
PushShaFound ==
    /\ pc = "push_files_to_repo"
    /\ PyEq(push_round, PyInt(2))
    /\ latest_sha' \in ShaValues
    /\ effects' = Append(effects, "get_sha_of_latest_commit")
    /\ push_state' = "running"
    /\ pc' = "push_loop"
    /\ UNCHANGED <<collabVars, concVars, entry, env_secret, data, response, genVars,
                   push_files, push_round, idx, puts>>

\* round == 2: get_sha_of_latest_commit raises on a status other than 200
PushShaFails ==
    /\ pc = "push_files_to_repo"
    /\ PyEq(push_round, PyInt(2))
    /\ effects' = Append(effects, "get_sha_of_latest_commit")
    /\ push_state' = "raised"
    /\ pc' = "done"
    /\ UNCHANGED <<collabVars, concVars, entry, env_secret, data, response, genVars,
                   push_files, push_round, latest_sha, idx, puts>>

\* an entry with a falsy name or encoded content: continue
PushSkips ==
    /\ pc = "push_loop"
    /\ idx <= Len(push_files)
    /\ SkipEntry(push_files[idx].name, EncodeContent(push_files[idx].content))
    /\ idx' = idx + 1
    /\ UNCHANGED <<collabVars, concVars, entry, env_secret, data, pc, response, effects, genVars,
                   push_files, push_round, latest_sha, puts, push_state>>

\* requests.put answers 201: go on with the next entry
PushPutCreated ==
    /\ pc = "push_loop"
    /\ idx <= Len(push_files)
    /\ ~SkipEntry(push_files[idx].name, EncodeContent(push_files[idx].content))
    /\ \E st \in PutStatuses :
          /\ IsCreated(st)
          /\ puts' = Append(puts, PutPayload(idx, push_files[idx], latest_sha, st))
    /\ idx' = idx + 1
    /\ UNCHANGED <<collabVars, concVars, entry, env_secret, data, pc, response, effects, genVars,
                   push_files, push_round, latest_sha, push_state>>

\* requests.put answers anything else: raise Exception("Failed to push ...")
PushPutFails ==
    /\ pc = "push_loop"
    /\ idx <= Len(push_files)
    /\ ~SkipEntry(push_files[idx].name, EncodeContent(push_files[idx].content))
    /\ \E st \in PutStatuses :
          /\ ~IsCreated(st)
          /\ puts' = Append(puts, PutPayload(idx, push_files[idx], latest_sha, st))
    /\ push_state' = "raised"
    /\ pc' = "done"
    /\ UNCHANGED <<collabVars, concVars, entry, env_secret, data, response, effects, genVars,
                   push_files, push_round, latest_sha, idx>>

\* the for loop runs out: the function returns None
PushReturns ==
    /\ pc = "push_loop"
    /\ idx > Len(push_files)
    /\ push_state' = "returned"
    /\ pc' = "done"
    /\ UNCHANGED <<collabVars, concVars, entry, env_secret, data, response, effects, genVars,
                   push_files, push_round, latest_sha, idx, puts>>

(***************************************************************************)
(* create_github_repo and enable_github_pages: one POST each.              *)
(***************************************************************************)
\* status 201: return response.json()
CreateRepoReturns ==
    /\ pc = "create_github_repo"
    /\ \E st \in PostStatuses :
          /\ IsCreated(st)
          /\ http_log' = Append(http_log, Request("create_github_repo", "POST", st))
    /\ collab_state' = "returned"
    /\ pc' = "done"
    /\ UNCHANGED <<concVars, entry, env_secret, data, response, effects, genVars,
                   pushVars, evaluation_url>>

\* any other status: raise Exception("Failed to create repo ...")
CreateRepoRaises ==
    /\ pc = "create_github_repo"
    /\ \E st \in PostStatuses :
          /\ ~IsCreated(st)
          /\ http_log' = Append(http_log, Request("create_github_repo", "POST", st))
    /\ collab_state' = "raised"
    /\ pc' = "done"
    /\ UNCHANGED <<concVars, entry, env_secret, data, response, effects, genVars,
                   pushVars, evaluation_url>>

\* status 201: the function falls off its end
EnablePagesReturns ==
    /\ pc = "enable_github_pages"
    /\ \E st \in PostStatuses :
          /\ IsCreated(st)
          /\ http_log' = Append(http_log, Request("enable_github_pages", "POST", st))
    /\ collab_state' = "returned"
    /\ pc' = "done"
    /\ UNCHANGED <<concVars, entry, env_secret, data, response, effects, genVars,
                   pushVars, evaluation_url>>

\* any other status: raise Exception("Failed to enable github pages ...")
EnablePagesRaises ==
    /\ pc = "enable_github_pages"
    /\ \E st \in PostStatuses :
          /\ ~IsCreated(st)
          /\ http_log' = Append(http_log, Request("enable_github_pages", "POST", st))
    /\ collab_state' = "raised"
    /\ pc' = "done"
    /\ UNCHANGED <<concVars, entry, env_secret, data, response, effects, genVars,
                   pushVars, evaluation_url>>

(***************************************************************************)
(* notify_evaluation_server.                                               *)
(***************************************************************************)
\* if not evaluation_url: print and return
NotifyNoUrl ==
    /\ pc = "notify_evaluation_server"
    /\ Falsy(evaluation_url)
    /\ collab_state' = "returned"
    /\ pc' = "done"
    /\ UNCHANGED <<concVars, entry, env_secret, data, response, effects, genVars,
                   pushVars, evaluation_url, http_log>>

\* building the payload calls get_sha_of_latest_commit (line 191), outside
\* the try: status 200 gives the sha and the function goes on to the POST
NotifyShaFound ==
    /\ pc = "notify_evaluation_server"
    /\ ~Falsy(evaluation_url)
    /\ http_log' = Append(http_log, Request("get_sha_of_latest_commit", "GET", 200))
    /\ collab_state' = "running"
    /\ pc' = "notify_post"
    /\ UNCHANGED <<concVars, entry, env_secret, data, response, effects, genVars,
                   pushVars, evaluation_url>>

\* get_sha_of_latest_commit raises on a status other than 200 and nothing
\* in notify_evaluation_server catches it
NotifyShaRaises ==
    /\ pc = "notify_evaluation_server"
    /\ ~Falsy(evaluation_url)
    /\ \E st \in GetStatuses \ {200} :
          http_log' = Append(http_log, Request("get_sha_of_latest_commit", "GET", st))
    /\ collab_state' = "raised"
    /\ pc' = "done"
    /\ UNCHANGED <<concVars, entry, env_secret, data, response, effects, genVars,
                   pushVars, evaluation_url>>

\* requests.post answers: 200 prints success, anything else prints the
\* failure; the function returns in both cases
NotifyPostAnswered ==
    /\ pc = "notify_post"
    /\ \E st \in PostStatuses :
          http_log' = Append(http_log, Request("notify_evaluation_server", "POST", st))
    /\ collab_state' = "returned"
    /\ pc' = "done"
    /\ UNCHANGED <<concVars, entry, env_secret, data, response, effects, genVars,
                   pushVars, evaluation_url>>

\* requests.post raises (timeout, connection error): `except Exception`
\* prints it and the function returns.  Status 0 stands for no answer.
NotifyPostFails ==
    /\ pc = "notify_post"
    /\ http_log' = Append(http_log, Request("notify_evaluation_server", "POST", 0))
    /\ collab_state' = "returned"
    /\ pc' = "done"
    /\ UNCHANGED <<concVars, entry, env_secret, data, response, effects, genVars,
                   pushVars, evaluation_url>>

(***************************************************************************)
(* Two concurrent invocations of generate_code_with_llm.  Each step is the *)
(* same code as in the single invocation above, run by invocation i on the *)
(* call frame Frame(i).                                                    *)
(***************************************************************************)
\* the call returns a response that parses: return the files
ConcAttemptSucceeds(i) ==
    /\ inv_pc[i] = "attempt"
    /\ frames' = [frames EXCEPT ![Frame(i)].delay =
                                   Delay(frames[Frame(i)].attempt)]
    /\ inv_obs' = [inv_obs EXCEPT ![i].calls = @ + 1,
                                  ![i].outcome = "SUCCEEDED"]
    /\ delivered' = [delivered EXCEPT ![i] = Append(@, "valid")]
    /\ inv_pc' = [inv_pc EXCEPT ![i] = "returned"]
    /\ UNCHANGED <<entry, env_secret, data, pc, response, effects, genVars,
                   pushVars, collabVars>>

\* the response does not parse: record the message, sleep, continue
ConcAttemptInvalid(i) ==
    /\ inv_pc[i] = "attempt"
    /\ frames' = [frames EXCEPT
          ![Frame(i)].delay = Delay(frames[Frame(i)].attempt),
          ![Frame(i)].last_error_message = "Invalid JSON/Schema from LLM"]
    /\ inv_obs' = [inv_obs EXCEPT
          ![i].calls = @ + 1,
          ![i].sleeps = Append(@, Delay(frames[Frame(i)].attempt))]
    /\ delivered' = [delivered EXCEPT ![i] = Append(@, "invalid")]
    /\ inv_pc' = [inv_pc EXCEPT ![i] = "sleeping"]
    /\ UNCHANGED <<entry, env_secret, data, pc, response, effects, genVars,
                   pushVars, collabVars>>

\* except APIError: record the message, sleep unless this is the last attempt
ConcAttemptAPIError(i) ==
    /\ inv_pc[i] = "attempt"
    /\ frames' = [frames EXCEPT
          ![Frame(i)].delay = Delay(frames[Frame(i)].attempt),
          ![Frame(i)].last_error_message = "Gemini API Error"]
    /\ inv_obs' = [inv_obs EXCEPT
          ![i].calls = @ + 1,
          ![i].sleeps = IF FaultSleeps(frames[Frame(i)].attempt)
                          THEN Append(@, Delay(frames[Frame(i)].attempt))
                          ELSE @]
    /\ delivered' = [delivered EXCEPT ![i] = Append(@, "APIError")]
    /\ inv_pc' = [inv_pc EXCEPT ![i] =
                    IF FaultSleeps(frames[Frame(i)].attempt)
                      THEN "sleeping" ELSE "raise"]
    /\ UNCHANGED <<entry, env_secret, data, pc, response, effects, genVars,
                   pushVars, collabVars>>

\* time.sleep returns: next value of the for loop, or the loop runs out
ConcSleepEnds(i) ==
    /\ inv_pc[i] = "sleeping"
    /\ IF LoopHasNext(frames[Frame(i)].attempt)
         THEN /\ frames' = [frames EXCEPT ![Frame(i)].attempt = @ + 1]
              /\ inv_pc' = [inv_pc EXCEPT ![i] = "attempt"]
         ELSE /\ frames' = frames
              /\ inv_pc' = [inv_pc EXCEPT ![i] = "raise"]
    /\ UNCHANGED <<entry, env_secret, data, pc, response, effects, genVars,
                   pushVars, collabVars, inv_obs, delivered>>

\* raise Exception(f"... Last error: {last_error_message}")
ConcRaiseExhausted(i) ==
    /\ inv_pc[i] = "raise"
    /\ inv_obs' = [inv_obs EXCEPT
          ![i].outcome = "EXHAUSTED",
          ![i].error = frames[Frame(i)].last_error_message]
    /\ inv_pc' = [inv_pc EXCEPT ![i] = "raised"]
    /\ UNCHANGED <<entry, env_secret, data, pc, response, effects, genVars,
                   pushVars, collabVars, frames, delivered>>

Next ==
    \/ RejectSecret
    \/ DispatchRound1
    \/ DispatchRound2
    \/ RejectRound
    \/ AttemptSucceeds
    \/ AttemptInvalid
    \/ AttemptAPIError
    \/ AttemptGeneralError
    \/ SleepEnds
    \/ RaiseExhausted
    \/ Round1Returns
    \/ PushBegins
    \/ PushShaFound
    \/ PushShaFails
    \/ PushSkips
    \/ PushPutCreated
    \/ PushPutFails
    \/ PushReturns
    \/ CreateRepoReturns
    \/ CreateRepoRaises
    \/ EnablePagesReturns
    \/ EnablePagesRaises
    \/ NotifyNoUrl
    \/ NotifyShaFound
    \/ NotifyShaRaises
    \/ NotifyPostAnswered
    \/ NotifyPostFails
    \/ \E i \in Invocations : ConcAttemptSucceeds(i)
    \/ \E i \in Invocations : ConcAttemptInvalid(i)
    \/ \E i \in Invocations : ConcAttemptAPIError(i)
    \/ \E i \in Invocations : ConcSleepEnds(i)
    \/ \E i \in Invocations : ConcRaiseExhausted(i)

Spec == Init /\ [][Next]_vars

\* The single thread of control keeps running: a backend call returns or
\* raises, a sleep ends, and straight-line code goes on.
FairSpec == Spec /\ WF_vars(Next)

(***************************************************************************)
(* Properties of generate_code_with_llm.                                   *)
(***************************************************************************)
\* C1 (bounded attempts): the loop never makes more than MAX_RETRIES
\* backend calls; when it leaves the loop without a success, that is when
\* every attempt failed by a fault or by an invalid response, it has made
\* exactly MAX_RETRIES calls, all of them failed, and it raises the
\* exhaustion error.
C1_BoundedAttempts ==
    /\ calls <= 5
    /\ pc = "raise" => (calls = 5 /\ failed = 5 /\ gen_state = "ATTEMPTING")
    /\ gen_state = "EXHAUSTED" => (calls = 5 /\ failed = 5)
    /\ (pc = "done" /\ gen_state # "none" /\ failed = calls)
          => (gen_state = "EXHAUSTED" /\ calls = 5)

C1_Witness ==
    /\ gen_state = "EXHAUSTED"
    /\ calls = 5
    /\ failed = 5
    /\ last_error_message = "Gemini API Error"

\* C2 (success short-circuits): when the first good response arrives on
\* attempt k, the loop has made k+1 calls and k sleeps of 4, 8, 16, ...
\* (one after each failed attempt), and it sleeps no more afterwards: the
\* counts stay so until the request is done.
C2_SuccessShortCircuits ==
    gen_state = "SUCCEEDED" =>
        /\ attempt < 5
        /\ calls = attempt + 1
        /\ failed = attempt
        /\ Len(sleeps) = attempt
        /\ \A i \in 1..Len(sleeps) : sleeps[i] = 4 * 2^(i - 1)
        /\ pc \in {"round1_print", "done"}

C2_Witness ==
    /\ gen_state = "SUCCEEDED"
    /\ pc = "done"
    /\ calls = 4
    /\ sleeps = <<4, 8, 16>>

\* C3 (license invariant, as claimed): a returned file set holds exactly
\* one entry named LICENSE, and it carries the fixed license text, whatever
\* the backend sent.
C3_ExactlyOneLicense ==
    gen_state = "SUCCEEDED" =>
        /\ Cardinality({i \in 1..Len(files) : files[i].name = "LICENSE"}) = 1
        /\ \A i \in 1..Len(files) :
              files[i].name = "LICENSE" => files[i].content = MIT_LICENSE_TEXT

\* C4 (license appended once, on success only): no append happens while
\* attempts fail or on exhaustion; on success exactly one append has
\* happened and the returned list is the backend's files, in order,
\* followed by the license entry, with no deduplication.
C4_LicenseAppendedOnce ==
    /\ license_appends <= 1
    /\ gen_state # "SUCCEEDED" => (license_appends = 0 /\ files = <<>>)
    /\ gen_state = "SUCCEEDED" =>
          /\ license_appends = 1
          /\ files = resp.files \o <<LicenseFile>>

C4_Witness ==
    /\ gen_state = "SUCCEEDED"
    /\ failed > 0
    /\ Len(files) = 2
    /\ files[1].name = "LICENSE"
    /\ files[2].name = "LICENSE"

\* C5 (as claimed): success needs a non-empty array whose entries all have
\* a non-empty name and non-empty content.
C5_SuccessNeedsNonEmpty ==
    gen_state = "SUCCEEDED" =>
        /\ resp.files # <<>>
        /\ \A i \in 1..Len(resp.files) :
              resp.files[i].name # "" /\ resp.files[i].content # ""

\* C5 (amended): an attempt succeeds exactly when the call returns without
\* a fault and the response parses into the declared schema; emptiness of
\* the array, of a name or of a content is not checked.  Any other outcome
\* consumes the attempt.
C5_SuccessNeedsParse ==
    /\ gen_state = "SUCCEEDED" => (resp.kind = "response" /\ resp.parsed)
    /\ (resp.kind = "response" /\ resp.parsed) => gen_state = "SUCCEEDED"
    /\ gen_state \in {"ATTEMPTING", "EXHAUSTED"} => failed = calls

C5_Witness ==
    /\ gen_state = "SUCCEEDED"
    /\ resp.files = <<>>
    /\ files = <<LicenseFile>>

(***************************************************************************)
(* Properties of handle_task and round1.                                   *)
(***************************************************************************)
\* C6 (secret gate): a request whose secret (the empty string when absent)
\* differs from the configured one never causes a handler, backend or
\* repository call, and is answered with the Invalid secret error object.
C6_SecretGate ==
    LET secret == IF data.secret = Missing THEN PyStr("") ELSE data.secret
        equal == secret.t = env_secret.t /\ secret.s = env_secret.s
    IN  (entry = "handle_task" /\ ~equal) =>
            /\ effects = <<>>
            /\ calls = 0
            /\ gen_state = "none"
            /\ puts = <<>>
            /\ pc \in {"handle_task", "done"}
            /\ pc = "done" => response = ErrInvalidSecret
            /\ pc = "handle_task" => response = "none"

C6_Witness ==
    /\ pc = "done"
    /\ data.secret = PyStr("wrong")
    /\ data.round = PyInt(1)
    /\ env_secret = PyStr("sirjan255")
    /\ response = ErrInvalidSecret

\* C7 (as claimed): a round-1 request with a valid secret is answered with
\* the acknowledgment whether generation succeeded or was exhausted.
C7_AckRegardless ==
    (pc = "done" /\ gen_state \in {"SUCCEEDED", "EXHAUSTED"})
        => response = MsgRound1

\* C8 (as claimed): with a valid secret, round1 runs exactly when round is
\* 1, round2 exactly when round is 2, and any other round value runs
\* neither and is answered with the Invalid round error object.
C8_RoundDispatch ==
    (entry = "handle_task" /\ pc # "handle_task"
       /\ response # ErrInvalidSecret) =>
        /\ (\E i \in 1..Len(effects) : effects[i] = "round1")
              <=> data.round = PyInt(1)
        /\ (\E i \in 1..Len(effects) : effects[i] = "round2")
              <=> data.round = PyInt(2)
        /\ data.round \notin {PyInt(1), PyInt(2)} =>
              (effects = <<>> /\ response = ErrInvalidRound)

\* C9 (as claimed): after a successful generation round1 calls repository
\* creation, pages enabling, file push and evaluation notification, in
\* this order.
C9_ForwardsOnSuccess ==
    LET collaborators == {"create_github_repo", "enable_github_pages",
                          "push_files_to_repo", "notify_evaluation_server"}
        IsCollaborator(e) == e \in collaborators
    IN  (pc = "done" /\ gen_state = "SUCCEEDED") =>
            SelectSeq(effects, IsCollaborator)
              = <<"create_github_repo", "enable_github_pages",
                  "push_files_to_repo", "notify_evaluation_server">>

(***************************************************************************)
(* Properties of push_files_to_repo.                                       *)
(***************************************************************************)
\* C10 (empty-field exclusion at publish time): no PUT is issued for an
\* entry with an empty name or empty content, such an entry does not stop
\* the loop, every other entry before the first failing PUT has been
\* pushed, only the last PUT can have failed, and generate_code_with_llm
\* returns the backend's entries unfiltered.
C10_EmptyFieldExclusion ==
    LET Empty(f) == f.name = "" \/ f.content.s = ""
    IN  /\ \A k \in 1..Len(puts) : ~Empty(push_files[puts[k].index])
        /\ \A i \in 1..Len(push_files) :
              (i < idx /\ ~Empty(push_files[i])) =>
                  \E k \in 1..Len(puts) :
                      puts[k].index = i /\ puts[k].status = 201
        /\ \A k \in 1..Len(puts) :
              puts[k].status # 201 => (k = Len(puts) /\ push_state = "raised")
        /\ push_state = "returned" => idx = Len(push_files) + 1
        /\ gen_state = "SUCCEEDED" =>
              \A i \in 1..Len(resp.files) : files[i] = resp.files[i]

C10_Witness ==
    /\ push_state = "returned"
    /\ Len(push_files) = 2
    /\ push_files[1].name = "index.html"
    /\ push_files[1].content = PyStr("")
    /\ push_files[2].content = PyBytes("<html>")
    /\ Len(puts) = 1
    /\ puts[1].index = 2


(***************************************************************************)
(* Backoff, exhaustion and termination of generate_code_with_llm.          *)
(***************************************************************************)
\* C12 (as claimed): when the final attempt fails, by a fault or by an
\* invalid response, the loop raises without a further sleep: no sleep is
\* ever in progress on the last attempt and an exhausted invocation has
\* slept MAX_RETRIES - 1 times.
C12_NoSleepAfterFinal ==
    /\ pc = "sleeping" => attempt < 5 - 1
    /\ gen_state = "EXHAUSTED" => Len(sleeps) = 5 - 1

\* C13 (as claimed): one invocation sleeps at most 4 times and for at most
\* 60 time units in total.
C13_TotalBackoff ==
    LET At(i) == IF i <= Len(sleeps) THEN sleeps[i] ELSE 0
    IN  /\ Len(sleeps) <= 4
        /\ At(1) + At(2) + At(3) + At(4) + At(5) + At(6) <= 60

\* C14 (backoff schedule): the sleep that follows failed attempt n lasts
\* INITIAL_DELAY * 2^n whatever kind of failure it was, so the sleeps of
\* one invocation are 4, 8, 16, 32, ... and strictly increase.
C14_BackoffSchedule ==
    /\ \A i \in 1..Len(sleeps) : sleeps[i] = 4 * 2^(i - 1)
    /\ \A i \in 1..Len(sleeps) : \A j \in 1..Len(sleeps) :
          i < j => sleeps[i] < sleeps[j]
    /\ pc = "sleeping" =>
          (Len(sleeps) = attempt + 1 /\ sleeps[Len(sleeps)] = 4 * 2^attempt)

C14_Witness ==
    /\ pc = "sleeping"
    /\ sleeps = <<4, 8, 16, 32>>
    /\ last_error_message = "Gemini API Error"

\* C15 (as claimed): the exhaustion error carries the message of the final
\* failed attempt: the validation message when that attempt was an invalid
\* response, the API message for an APIError, the general one otherwise.
C15_LastErrorSurfaced ==
    gen_state = "EXHAUSTED" =>
        last_error_message =
            (IF resp.kind = "response" THEN "Invalid JSON/Schema from LLM"
             ELSE IF resp.kind = "APIError" THEN "Gemini API Error"
             ELSE "Network or General Error")

\* C18 (termination): under FairSpec an invocation that has started ends
\* in SUCCEEDED or EXHAUSTED, and from then on its state, its backend
\* calls and its sleeps never change again.
C18_Termination ==
    /\ (gen_state = "ATTEMPTING") ~> (gen_state \in {"SUCCEEDED", "EXHAUSTED"})
    /\ [][(gen_state = "SUCCEEDED" \/ gen_state = "EXHAUSTED") =>
            (gen_state' = gen_state /\ calls' = calls /\ sleeps' = sleeps)]_vars

C18_Witness ==
    /\ pc = "done"
    /\ gen_state = "EXHAUSTED"
    /\ last_error_message = "Network or General Error"
    /\ Len(sleeps) = 4

\* C19 (retry-state invariant): the attempt index stays in
\* 0..MAX_RETRIES-1 and changes only by +1; the backend calls made equal
\* the attempts started and never exceed MAX_RETRIES; the sleeps never
\* exceed the failed attempts.
C19_RetryState ==
    /\ [](LET started == IF gen_state = "none" THEN 0
                         ELSE IF pc = "attempt" THEN attempt
                         ELSE attempt + 1
          IN  /\ attempt \in 0..(5 - 1)
              /\ calls = started
              /\ calls <= 5
              /\ Len(sleeps) <= failed
              /\ failed <= calls)
    /\ [][attempt' = attempt \/ attempt' = attempt + 1]_vars

C19_Witness ==
    /\ pc = "attempt"
    /\ attempt = 4
    /\ calls = 4
    /\ Len(sleeps) = 4

(***************************************************************************)
(* Properties of the repository and notification calls.                    *)
(***************************************************************************)
\* C11 (as claimed): notify_evaluation_server never raises, whatever the
\* commit lookup and the POST answer, and posts at most once.
C11_NotifyNeverFatal ==
    LET IsPost(q) == q.call = "notify_evaluation_server" /\ q.method = "POST"
    IN  entry = "notify_evaluation_server" =>
            /\ collab_state # "raised"
            /\ Len(SelectSeq(http_log, IsPost)) <= 1
            /\ pc = "done" => collab_state = "returned"

\* C16 (publishing faults abort at once, no rollback): a PUT answered with
\* anything but 201 is the last request of push_files_to_repo and makes it
\* raise; the entries pushed before it stay pushed and no request undoes
\* them; create_github_repo and enable_github_pages make one POST and
\* return exactly when it is answered with 201, raising otherwise.
C16_PublishFaultsAbort ==
    /\ \A k \in 1..Len(puts) :
          /\ puts[k].status # 201 =>
                (k = Len(puts) /\ push_state = "raised" /\ pc = "done"
                 /\ idx = puts[k].index)
          /\ puts[k].index <= idx
          /\ \A j \in 1..Len(puts) : j < k => puts[j].index < puts[k].index
    /\ (push_state = "raised" /\ puts # <<>>) =>
          /\ puts[Len(puts)].status # 201
          /\ \A k \in 1..(Len(puts) - 1) : puts[k].status = 201
    /\ push_state = "returned" => \A k \in 1..Len(puts) : puts[k].status = 201
    /\ (entry \in {"create_github_repo", "enable_github_pages"}
           /\ pc = "done") =>
          /\ Len(http_log) = 1
          /\ http_log[1].call = entry
          /\ http_log[1].method = "POST"
          /\ collab_state = "returned" <=> http_log[1].status = 201
          /\ collab_state = "raised" <=> http_log[1].status # 201

C16_Witness ==
    /\ push_state = "raised"
    /\ Len(push_files) = 2
    /\ Len(puts) = 2
    /\ puts[1].status = 201
    /\ puts[2].status = 200

(***************************************************************************)
(* Two concurrent invocations.                                             *)
(***************************************************************************)
\* C17 (isolation): in every interleaving of two invocations, the backend
\* calls, the sleeps, the raised message and the outcome of an invocation
\* are those a lone invocation shows for the outcomes delivered to it, and
\* a step of one invocation leaves the other's attempt, delay and last
\* error message unchanged.
C17_Isolation ==
    /\ [](\A i \in Invocations :
            LET d == delivered[i]
                n == Len(d)
                o == inv_obs[i]
                slept == IF n = 5 /\ d[5] = "APIError" THEN 4
                         ELSE IF n > 0 /\ d[n] = "valid" THEN n - 1
                         ELSE n
            IN  /\ o.calls = n
                /\ n <= 5
                /\ Len(o.sleeps) = slept
                /\ \A k \in 1..Len(o.sleeps) : o.sleeps[k] = 4 * 2^(k - 1)
                /\ o.outcome = "SUCCEEDED" <=> (n > 0 /\ d[n] = "valid")
                /\ o.outcome = "EXHAUSTED" =>
                      /\ n = 5
                      /\ d[5] # "valid"
                      /\ o.error = (IF d[5] = "invalid"
                                      THEN "Invalid JSON/Schema from LLM"
                                      ELSE "Gemini API Error")
                /\ inv_pc[i] = "raised" <=> o.outcome = "EXHAUSTED"
                /\ inv_pc[i] = "returned" <=> o.outcome = "SUCCEEDED")
    /\ [][\A i \in Invocations :
            (inv_pc'[i] = inv_pc[i]) => (frames'[i] = frames[i])]_vars

C17_Witness ==
    /\ inv_pc[1] = "sleeping"
    /\ delivered[1] = <<"APIError", "invalid", "APIError">>
    /\ inv_obs[1].sleeps = <<4, 8, 16>>
    /\ inv_pc[2] = "raised"
    /\ inv_obs[2].error = "Invalid JSON/Schema from LLM"
    /\ Len(inv_obs[2].sleeps) = 5

====
